---- MODULE Spec2Model ----
(***************************************************************************)
(* Model of traffic-ml-system/src/data/clean_traffic.py: the raw CSV file, *)
(* the DataFrame handed from one cleaning function to the next, and the    *)
(* functions load_raw_traffic_data, parse_timestamps,                      *)
(* select_relevant_columns, is_positive_integer, sort_time_series,         *)
(* remove_invalid_rows, save_processed_data and run_cleaning_pipeline.     *)
(*                                                                         *)
(* A Python string is a sequence of one-character strings.  A date text is *)
(* kept as one token (a one-element sequence): the permissive date parser  *)
(* is modelled by its result on the date texts of the model.               *)
(***************************************************************************)
EXTENDS Integers, Sequences, FiniteSets, TLC

VARIABLES
  csv,      \* the raw CSV file at file_path: exists, header, lines of texts
  cfg,      \* the column names passed to the calls
  pc,       \* "start", "loaded" (df holds a table) or "done"
  df,       \* the caller's DataFrame: columns and labelled rows
  inp,      \* the DataFrame the last call was given
  ret,      \* what the last call returned (a table, None) or raised
  last,     \* the function called last
  stages,   \* the stages run_cleaning_pipeline has called
  outfile,  \* the file at output_path
  s,        \* the string given to is_positive_integer
  b         \* what is_positive_integer returned

vars == <<csv, cfg, pc, df, inp, ret, last, stages, outfile, s, b>>

(* ------------------------------ bounds --------------------------------- *)

\* Rows of the raw CSV file.
MaxRows == 3

\* Characters of a string given to is_positive_integer.
MaxLen == 3

(* --------------------------- Python values ----------------------------- *)

IntV(n) == [k |-> "int", n |-> n, s |-> <<>>]

\* A float, kept as the text str() gives for it ("5.0", "3.5").
FloatV(r) == [k |-> "float", n |-> 0, s |-> r]

StrV(t) == [k |-> "str", n |-> 0, s |-> t]

NaN == [k |-> "nan", n |-> 0, s |-> <<>>]

PyNone == [k |-> "None", n |-> 0, s |-> <<>>]

\* pandas.Timestamp, by its position on the time line.
Timestamp(t) == [k |-> "Timestamp", n |-> t, s |-> <<>>]

NaT == [k |-> "NaT", n |-> 0, s |-> <<>>]

(* ------------------------------ strings -------------------------------- *)

DigitChars == <<"0", "1", "2", "3", "4", "5", "6", "7", "8", "9">>

IsDigit(c) == \E i \in 1..10 : DigitChars[i] = c

DigitValue(c) == (CHOOSE i \in 1..10 : DigitChars[i] = c) - 1

IsSpace(c) == c = " "

RECURSIVE LStrip(_)
LStrip(t) ==
  IF t # <<>> /\ IsSpace(Head(t)) THEN LStrip(Tail(t)) ELSE t

RECURSIVE RStrip(_)
RStrip(t) ==
  IF t # <<>> /\ IsSpace(t[Len(t)]) THEN RStrip(SubSeq(t, 1, Len(t) - 1)) ELSE t

\* str.strip()
Strip(t) == RStrip(LStrip(t))

RECURSIVE NatDigits(_)
NatDigits(n) ==
  IF n < 10 THEN <<DigitChars[n + 1]>>
  ELSE NatDigits(n \div 10) \o <<DigitChars[(n % 10) + 1]>>

\* The one-token text of a Timestamp.
DateTexts == <<"2021-01-01 00:00:00", "2021-01-01 01:00:00">>

\* str(value) as remove_invalid_rows applies it to a cell.
PyStr(v) ==
  CASE v.k = "int" -> IF v.n < 0 THEN <<"-">> \o NatDigits(-v.n) ELSE NatDigits(v.n)
    [] v.k = "float" -> v.s
    [] v.k = "str" -> v.s
    [] v.k = "nan" -> <<"n", "a", "n">>
    [] v.k = "None" -> <<"N", "o", "n", "e">>
    [] v.k = "Timestamp" -> <<DateTexts[v.n]>>
    [] OTHER -> <<"N", "a", "T">>

(* ------------------------------- int() --------------------------------- *)

\* The digits part of an int() literal: digits, single underscores allowed
\* between two digits only.
RECURSIVE DigitsOk(_, _)
DigitsOk(t, prevDigit) ==
  IF t = <<>> THEN prevDigit
  ELSE IF IsDigit(Head(t)) THEN DigitsOk(Tail(t), TRUE)
  ELSE IF Head(t) = "_" THEN prevDigit /\ DigitsOk(Tail(t), FALSE)
  ELSE FALSE

RECURSIVE DigitsValue(_, _)
DigitsValue(t, acc) ==
  IF t = <<>> THEN acc
  ELSE IF Head(t) = "_" THEN DigitsValue(Tail(t), acc)
  ELSE DigitsValue(Tail(t), acc * 10 + DigitValue(Head(t)))

\* int(t): [ok |-> FALSE] stands for ValueError.  Surrounding whitespace is
\* skipped, then an optional sign, then the digits; anything left over is an
\* error.
PyInt(t) ==
  LET u == Strip(t)
      signed == u # <<>> /\ Head(u) \in {"+", "-"}
      body == IF signed THEN Tail(u) ELSE u
  IN IF body # <<>> /\ IsDigit(Head(body)) /\ DigitsOk(body, FALSE)
     THEN [ok |-> TRUE,
           v |-> IF signed /\ Head(u) = "-" THEN -DigitsValue(body, 0)
                 ELSE DigitsValue(body, 0)]
     ELSE [ok |-> FALSE, v |-> 0]

is_positive_integer_GE(t) ==
  LET num == PyInt(t)
  IN IF ~num.ok THEN FALSE ELSE num.v >= 0

is_positive_integer(t) ==
  LET num == PyInt(t)
  IN IF ~num.ok THEN FALSE
     ELSE IF num.v > 0 THEN TRUE
     ELSE FALSE

(* --------------------------- the raw CSV file -------------------------- *)

\* remove_invalid_rows' default column names.
DefaultCols ==
  [segment |-> "Junction", time |-> "DateTime", target |-> "Vehicles", id |-> "ID"]

\* The column names of test_schema_different_column_names.csv.
AltCols ==
  [segment |-> "segment_id", time |-> "timestamp", target |-> "volume", id |-> "row_id"]

Header(c) == <<c.time, c.segment, c.target, c.id>>

Range(f) == {f[i] : i \in DOMAIN f}

T1 == <<DateTexts[1]>>

T2 == <<DateTexts[2]>>

BadDate == <<"not-a-date">>

\* The texts of one CSV line, by role.
Line(time, segment, target, id) ==
  [time |-> time, segment |-> segment, target |-> target, id |-> id]

\* The CSV lines of the model: a valid line, lines that differ from it in one
\* field, and lines that repeat its id.
CsvLines ==
  { Line(T1, <<"1">>, <<"7">>, <<"5">>),
    Line(T2, <<"1">>, <<"7">>, <<" ", "5", " ">>),
    Line(T2, <<"2">>, <<"7">>, <<"7">>),
    Line(BadDate, <<"1">>, <<"7">>, <<"5">>),
    Line(<<>>, <<"1">>, <<"7">>, <<"5">>),
    Line(T1, <<"-", "1">>, <<"7">>, <<"5">>),
    Line(T1, <<"1">>, <<"0">>, <<"5">>),
    Line(T1, <<"1">>, <<"7">>, <<"a", "b", "c">>) }

\* A CSV line under a header: column name -> text.
Named(line, c) ==
  [col \in Range(Header(c)) |->
     IF col = c.time THEN line.time
     ELSE IF col = c.segment THEN line.segment
     ELSE IF col = c.target THEN line.target
     ELSE line.id]

CsvFiles ==
  { [exists |-> FALSE, header |-> <<>>, rows |-> <<>>] } \cup
  { [exists |-> TRUE, header |-> Header(c), rows |-> [i \in 1..Len(ls) |-> Named(ls[i], c)]] :
      c \in {DefaultCols, AltCols}, ls \in UNION {[1..n -> CsvLines] : n \in 0..MaxRows} }

(* ------------------------------ DataFrame ------------------------------ *)

NoDf == [cols |-> <<>>, rows |-> <<>>]

Labels(d) == {d.rows[i].label : i \in 1..Len(d.rows)}

\* read_csv's integer field: optional sign and digits, surrounding blanks
\* skipped.
CsvIsInt(t) ==
  LET u == Strip(t)
      body == IF u # <<>> /\ Head(u) = "-" THEN Tail(u) ELSE u
  IN body # <<>> /\ \A i \in 1..Len(body) : IsDigit(body[i])

CsvIntValue(t) ==
  LET u == Strip(t)
  IN IF Head(u) = "-" THEN -DigitsValue(Tail(u), 0) ELSE DigitsValue(u, 0)

\* read_csv's dtype of a column: int64 when every field is an integer,
\* float64 when every field is an integer or empty, object otherwise.  (No
\* text of the model has a fraction.)
ColumnDtype(texts) ==
  IF \A t \in texts : CsvIsInt(t) THEN "int64"
  ELSE IF \A t \in texts : CsvIsInt(t) \/ t = <<>> THEN "float64"
  ELSE "object"

CsvCell(dtype, t) ==
  IF t = <<>> THEN NaN
  ELSE IF dtype = "int64" THEN IntV(CsvIntValue(t))
  ELSE IF dtype = "float64" THEN FloatV(PyStr(IntV(CsvIntValue(t))) \o <<".", "0">>)
  ELSE StrV(t)

\* pd.read_csv: a RangeIndex 0..n-1 and one dtype per column.
read_csv(file) ==
  LET n == Len(file.rows)
      dtype(col) == ColumnDtype({file.rows[i][col] : i \in 1..n})
  IN [cols |-> file.header,
      rows |-> [i \in 1..n |->
                  [label |-> i - 1,
                   cells |-> [col \in Range(file.header) |->
                                CsvCell(dtype(col), file.rows[i][col])]]]]

\* DataFrame.empty
Empty(d) == d.rows = <<>> \/ d.cols = <<>>

(* ---------------------------- call results ----------------------------- *)

Idle == [kind |-> "idle", df |-> NoDf, exc |-> ""]

Returned(d) == [kind |-> "table", df |-> d, exc |-> ""]

ReturnedNone == [kind |-> "None", df |-> NoDf, exc |-> ""]

Raised(e) == [kind |-> "raise", df |-> NoDf, exc |-> e]

(* ------------------------ load_raw_traffic_data ------------------------ *)

load_raw_traffic_data(file) ==
  IF ~file.exists THEN Raised("FileNotFoundError")
  ELSE LET d == read_csv(file)
       IN IF Empty(d) THEN Raised("ValueError") ELSE Returned(d)

(* ---------------------------- pandas helpers --------------------------- *)

RECURSIVE SelectRows(_, _)
SelectRows(rows, keep) ==
  IF rows = <<>> THEN <<>>
  ELSE IF Head(rows).label \in keep THEN <<Head(rows)>> \o SelectRows(Tail(rows), keep)
  ELSE SelectRows(Tail(rows), keep)

RECURSIVE Reverse(_)
Reverse(q) == IF q = <<>> THEN <<>> ELSE Reverse(Tail(q)) \o <<Head(q)>>

DropIndex_Reversed(d, labels) ==
  IF ~(labels \subseteq Labels(d)) THEN Raised("KeyError")
  ELSE Returned([d EXCEPT !.rows = Reverse(SelectRows(d.rows, Labels(d) \ labels))])

\* DataFrame.drop(index=labels): KeyError when a label is not in the index,
\* otherwise every row carrying one of the labels is removed.
DropIndex(d, labels) ==
  IF ~(labels \subseteq Labels(d)) THEN Raised("KeyError")
  ELSE Returned([d EXCEPT !.rows = SelectRows(d.rows, Labels(d) \ labels)])

RECURSIVE SelectCols(_, _)
SelectCols(cols, keep) ==
  IF cols = <<>> THEN <<>>
  ELSE IF Head(cols) \in keep THEN <<Head(cols)>> \o SelectCols(Tail(cols), keep)
  ELSE SelectCols(Tail(cols), keep)

\* DataFrame.drop(columns=[col])
DropColumn(d, col) ==
  LET left == SelectCols(d.cols, Range(d.cols) \ {col})
  IN [cols |-> left,
      rows |-> [i \in 1..Len(d.rows) |->
                  [label |-> d.rows[i].label,
                   cells |-> [c \in Range(left) |-> d.rows[i].cells[c]]]]]

\* pd.to_datetime(value, errors="coerce") on one value.  (A number in the time
\* column does not occur in the model: the date texts are never numeric.)
ToDatetime(v) ==
  CASE v.k = "str" ->
         IF \E i \in 1..Len(DateTexts) : v.s = <<DateTexts[i]>>
         THEN Timestamp(CHOOSE i \in 1..Len(DateTexts) : v.s = <<DateTexts[i]>>)
         ELSE NaT
    [] v.k = "Timestamp" -> v
    [] v.k = "None" -> PyNone
    [] OTHER -> NaT

\* pd.isna
IsNa(v) == v.k \in {"nan", "None", "NaT"}

\* row.get(column): None when the row has no such column.
Get(r, col) == IF col \in DOMAIN r.cells THEN r.cells[col] ELSE PyNone

(* --------------------------- parse_timestamps -------------------------- *)

\* The loop of parse_timestamps: `times` is the column it iterates (taken from
\* the table it was given), `cur` the table as rebound by the drops so far,
\* `row` the positional counter.  An invalid time at position `row` makes the
\* code read cur[time_column][row] and drop index label `row`: KeyError when
\* no row of `cur` carries that label.
RECURSIVE ParseLoop(_, _, _)
ParseLoop(times, cur, row) ==
  IF row >= Len(times) THEN Returned(cur)
  ELSE IF IsNa(ToDatetime(times[row + 1]))
       THEN IF row \notin Labels(cur) THEN Raised("KeyError")
            ELSE ParseLoop(times, DropIndex(cur, {row}).df, row + 1)
       ELSE ParseLoop(times, cur, row + 1)

\* pd.to_datetime(column) without errors="coerce": a text that is no date
\* raises, a missing value becomes NaT.
ColumnParses(d, time_column) ==
  \A i \in 1..Len(d.rows) :
    LET v == d.rows[i].cells[time_column]
    IN v.k = "str" => ~IsNa(ToDatetime(v))

ConvertColumn(d, time_column) ==
  [d EXCEPT !.rows =
     [i \in 1..Len(d.rows) |->
        [d.rows[i] EXCEPT !.cells[time_column] =
           IF ToDatetime(@).k = "None" THEN NaT ELSE ToDatetime(@)]]]

parse_timestamps(d, time_column) ==
  IF time_column \notin Range(d.cols) THEN Raised("KeyError")
  ELSE LET times == [i \in 1..Len(d.rows) |-> d.rows[i].cells[time_column]]
           looped == ParseLoop(times, d, 0)
       IN IF looped.kind = "raise" THEN looped
          ELSE IF ~ColumnParses(looped.df, time_column) THEN Raised("ValueError")
          ELSE Returned(ConvertColumn(looped.df, time_column))

(* ----------------------- select_relevant_columns ----------------------- *)

\* The loop over the columns of the table it was given; `cur` is the table
\* as rebound by the drops so far.
RECURSIVE SelectLoop(_, _, _, _, _)
SelectLoop(cols, cur, segment_column, time_column, target_column) ==
  IF cols = <<>> THEN cur
  ELSE LET col == Head(cols)
           next == IF ~(col = segment_column \/ col = time_column \/ col = target_column)
                   THEN DropColumn(cur, col)
                   ELSE cur
       IN SelectLoop(Tail(cols), next, segment_column, time_column, target_column)

select_relevant_columns(d, segment_column, time_column, target_column) ==
  Returned(SelectLoop(d.cols, d, segment_column, time_column, target_column))

(* --------------------------- sort_time_series -------------------------- *)

\* The body is `pass`: the call returns None.
sort_time_series(d, segment_column, time_column) == ReturnedNone

(* -------------------------- remove_invalid_rows ------------------------ *)

\* The index label iterrows() yields for the row at position i.
IterIdx_Positional(d, i) == i - 1

IterIdx(d, i) == d.rows[i].label

\* The checks of one row before the duplicate test: TRUE when the row is
\* appended to bad_idxs by one of them.
FailsChecks_NoTarget(r, c) ==
  \/ IsNa(ToDatetime(Get(r, c.time)))
  \/ ~is_positive_integer(PyStr(Get(r, c.segment)))
  \/ ~is_positive_integer(PyStr(Get(r, c.id)))

FailsChecks(r, c) ==
  \/ IsNa(ToDatetime(Get(r, c.time)))
  \/ ~is_positive_integer(PyStr(Get(r, c.segment)))
  \/ ~is_positive_integer(PyStr(Get(r, c.target)))
  \/ ~is_positive_integer(PyStr(Get(r, c.id)))

\* id_int = int(str(id_val).strip())
IdInt(r, c) == PyInt(Strip(PyStr(Get(r, c.id)))).v

\* seen_ids after a row that passed the checks and is no duplicate.
SeenAfter_Never(seen, id_int) == seen

SeenAfter(seen, id_int) == seen \cup {id_int}

\* The loop over the rows: the pair of bad_idxs and seen_ids after the rows
\* from position i on.
RECURSIVE RemoveLoop(_, _, _, _, _)
RemoveLoop(d, c, i, bad_idxs, seen_ids) ==
  IF i > Len(d.rows) THEN bad_idxs
  ELSE LET r == d.rows[i]
           idx == IterIdx(d, i)
       IN IF FailsChecks(r, c)
          THEN RemoveLoop(d, c, i + 1, bad_idxs \cup {idx}, seen_ids)
          ELSE IF IdInt(r, c) \in seen_ids
          THEN RemoveLoop(d, c, i + 1, bad_idxs \cup {idx}, seen_ids)
          ELSE RemoveLoop(d, c, i + 1, bad_idxs, SeenAfter(seen_ids, IdInt(r, c)))

remove_invalid_rows(d, c) == DropIndex(d, RemoveLoop(d, c, 1, {}, {}))

(* ------------------ save_processed_data, the pipeline ------------------ *)

\* The body is `pass`: nothing is written and the call returns None.
save_processed_data(file, d) == file

\* The stages run_cleaning_pipeline goes through.  The body is `pass`: it
\* calls none.
PipelineStages == <<>>

(* ------------------------------ the state ------------------------------ *)

NoFile == [exists |-> FALSE, df |-> NoDf]

Init ==
  /\ csv \in CsvFiles
  /\ cfg = DefaultCols
  /\ pc = "start"
  /\ df = NoDf
  /\ inp = NoDf
  /\ ret = Idle
  /\ last = "none"
  /\ stages = <<>>
  /\ outfile = NoFile
  /\ s = <<>>
  /\ b = "idle"

\* What a call leaves in the caller's hands: df = f(df, ...) rebinds df when
\* the call returned a table.
Rebound(result) == IF result.kind = "table" THEN result.df ELSE df

\* df = load_raw_traffic_data(path)
LoadRawTrafficData ==
  /\ pc = "start"
  /\ last = "none"
  /\ LET result == load_raw_traffic_data(csv)
     IN /\ ret' = result
        /\ df' = Rebound(result)
        /\ pc' = IF result.kind = "table" THEN "loaded" ELSE "start"
  /\ inp' = NoDf
  /\ last' = "load_raw_traffic_data"
  /\ UNCHANGED <<csv, cfg, stages, outfile, s, b>>

\* A caller removes the first row of the loaded table before it hands the
\* table on: the remaining rows keep their index labels.
RowsRemovedEarlier ==
  /\ pc = "loaded"
  /\ last = "load_raw_traffic_data"
  /\ Len(df.rows) >= 2
  /\ LET result == DropIndex(df, {df.rows[1].label})
     IN /\ ret' = result
        /\ df' = Rebound(result)
  /\ inp' = df
  /\ last' = "drop"
  /\ UNCHANGED <<csv, cfg, pc, stages, outfile, s, b>>

\* df = parse_timestamps(df, time_column)
ParseTimestamps ==
  /\ pc = "loaded"
  /\ LET result == parse_timestamps(df, cfg.time)
     IN /\ ret' = result
        /\ df' = Rebound(result)
  /\ inp' = df
  /\ last' = "parse_timestamps"
  /\ UNCHANGED <<csv, cfg, pc, stages, outfile, s, b>>

\* df = select_relevant_columns(df, segment_column, time_column, target_column)
SelectRelevantColumns ==
  /\ pc = "loaded"
  /\ LET result == select_relevant_columns(df, cfg.segment, cfg.time, cfg.target)
     IN /\ ret' = result
        /\ df' = Rebound(result)
  /\ inp' = df
  /\ last' = "select_relevant_columns"
  /\ UNCHANGED <<csv, cfg, pc, stages, outfile, s, b>>

\* df = remove_invalid_rows(df, segment_column, time_column, target_column, id_column)
RemoveInvalidRows ==
  /\ pc = "loaded"
  /\ LET result == remove_invalid_rows(df, cfg)
     IN /\ ret' = result
        /\ df' = Rebound(result)
  /\ inp' = df
  /\ last' = "remove_invalid_rows"
  /\ UNCHANGED <<csv, cfg, pc, stages, outfile, s, b>>

\* out = sort_time_series(df, segment_column, time_column)
SortTimeSeries ==
  /\ pc = "loaded"
  /\ ret' = sort_time_series(df, cfg.segment, cfg.time)
  /\ inp' = df
  /\ last' = "sort_time_series"
  /\ UNCHANGED <<csv, cfg, pc, df, stages, outfile, s, b>>

\* save_processed_data(df, output_path)
SaveProcessedData ==
  /\ pc = "loaded"
  /\ outfile' = save_processed_data(outfile, df)
  /\ ret' = ReturnedNone
  /\ inp' = df
  /\ last' = "save_processed_data"
  /\ UNCHANGED <<csv, cfg, pc, df, stages, s, b>>

\* run_cleaning_pipeline(raw_data_path, output_path)
RunCleaningPipeline ==
  /\ pc = "start"
  /\ last = "none"
  /\ stages' = PipelineStages
  /\ ret' = ReturnedNone
  /\ pc' = "done"
  /\ last' = "run_cleaning_pipeline"
  /\ UNCHANGED <<csv, cfg, df, inp, outfile, s, b>>

Next ==
  \/ LoadRawTrafficData
  \/ RowsRemovedEarlier
  \/ ParseTimestamps
  \/ SelectRelevantColumns
  \/ RemoveInvalidRows
  \/ SortTimeSeries
  \/ SaveProcessedData
  \/ RunCleaningPipeline

Spec == Init /\ [][Next]_vars

(* ------------------- is_positive_integer on its own -------------------- *)

Alphabet == {" ", "+", "-", "0", "1", "7", ".", "_", "a", "e"}

Strings == UNION {[1..n -> Alphabet] : n \in 0..MaxLen}

InitInt ==
  /\ csv = [exists |-> FALSE, header |-> <<>>, rows |-> <<>>]
  /\ cfg = DefaultCols
  /\ pc = "start"
  /\ df = NoDf
  /\ inp = NoDf
  /\ ret = Idle
  /\ last = "none"
  /\ stages = <<>>
  /\ outfile = NoFile
  /\ s \in Strings
  /\ b = "idle"

\* b = is_positive_integer(s)
IsPositiveInteger ==
  /\ b = "idle"
  /\ b' = IF is_positive_integer(s) THEN "True" ELSE "False"
  /\ last' = "is_positive_integer"
  /\ UNCHANGED <<csv, cfg, pc, df, inp, ret, stages, outfile, s>>

NextInt == IsPositiveInteger

SpecInt == InitInt /\ [][NextInt]_vars

(* ------------------- what the claims speak about ----------------------- *)

\* A text without its leading and trailing blanks.
Trimmed(t) ==
  LET inked == {i \in 1..Len(t) : t[i] # " "}
  IN IF inked = {} THEN <<>>
     ELSE SubSeq(t, CHOOSE i \in inked : \A j \in inked : i <= j,
                    CHOOSE i \in inked : \A j \in inked : j <= i)

Unsigned(t) == IF t # <<>> /\ t[1] \in {"+", "-"} THEN SubSeq(t, 2, Len(t)) ELSE t

\* An optional sign and one or more decimal digits, nothing else.
PlainIntLiteral(t) ==
  LET u == Unsigned(t)
  IN Len(u) >= 1 /\ \A i \in 1..Len(u) : IsDigit(u[i])

\* An optional sign and decimal digits in which single underscores may stand
\* between two digits.
UnderscoredIntLiteral(t) ==
  LET u == Unsigned(t)
  IN /\ Len(u) >= 1
     /\ \A i \in 1..Len(u) : IsDigit(u[i]) \/ u[i] = "_"
     /\ \A i \in 1..Len(u) :
          u[i] = "_" => i > 1 /\ i < Len(u) /\ IsDigit(u[i - 1]) /\ IsDigit(u[i + 1])

RECURSIVE Pow10(_)
Pow10(n) == IF n = 0 THEN 1 ELSE 10 * Pow10(n - 1)

RECURSIVE SumTo(_, _)
SumTo(f, n) == IF n = 0 THEN 0 ELSE f[n] + SumTo(f, n - 1)

\* The number a literal denotes.
LiteralValue(t) ==
  LET u == SelectSeq(Unsigned(t), IsDigit)
      n == Len(u)
      magnitude == SumTo([i \in 1..n |-> DigitValue(u[i]) * Pow10(n - i)], n)
  IN IF t # <<>> /\ t[1] = "-" THEN -magnitude ELSE magnitude

\* A cell holds a positive integer; the number it holds.
PositiveIntCell(v) ==
  LET t == Trimmed(PyStr(v))
  IN UnderscoredIntLiteral(t) /\ LiteralValue(t) > 0

CoercedInt(v) == LiteralValue(Trimmed(PyStr(v)))

\* A cell holds a time: a Timestamp or one of the date texts.
ParseableTime(v) ==
  \/ v.k = "Timestamp"
  \/ v.k = "str" /\ \E i \in 1..Len(DateTexts) : v.s = <<DateTexts[i]>>

Requested(c) == {c.segment, c.time, c.target, c.id}

\* The four validity rules short of uniqueness.
PassesChecks(r, c) ==
  /\ Requested(c) \subseteq DOMAIN r.cells
  /\ ParseableTime(r.cells[c.time])
  /\ PositiveIntCell(r.cells[c.segment])
  /\ PositiveIntCell(r.cells[c.target])
  /\ PositiveIntCell(r.cells[c.id])

\* Row i of table d is valid: it passes the checks and no earlier row that
\* passes them has its id.
MarkedValid(d, c, i) ==
  /\ PassesChecks(d.rows[i], c)
  /\ ~\E j \in 1..(i - 1) :
        /\ PassesChecks(d.rows[j], c)
        /\ CoercedInt(d.rows[j].cells[c.id]) = CoercedInt(d.rows[i].cells[c.id])

Removed == last = "remove_invalid_rows"

(* ------------------------------- claims -------------------------------- *)

\* C1: every row of the table remove_invalid_rows returns has a parseable
\* timestamp, a positive-integer segment, target and id, and no two rows of
\* it have the same id once coerced to an integer.
C1_SurvivorsAreValidAndUnique ==
  Removed =>
    /\ ret.kind = "table"
    /\ \A i \in 1..Len(ret.df.rows) : PassesChecks(ret.df.rows[i], cfg)
    /\ \A i, j \in 1..Len(ret.df.rows) :
         i # j => CoercedInt(ret.df.rows[i].cells[cfg.id])
                    # CoercedInt(ret.df.rows[j].cells[cfg.id])

C1_Witness ==
  /\ Removed
  /\ Len(inp.rows) = 3
  /\ Len(ret.df.rows) = 2
  /\ \E i \in 1..3 : ~PositiveIntCell(inp.rows[i].cells[cfg.target])

\* C2: remove_invalid_rows returns exactly the rows marked valid: the output
\* is a subsequence of the input that holds every valid row and no other, in
\* the input's order.
C2_ExactlyTheValidRowsInOrder ==
  Removed =>
    /\ ret.kind = "table"
    /\ ret.df.cols = inp.cols
    /\ Len(ret.df.rows) <= Len(inp.rows)
    /\ \E f \in [1..Len(ret.df.rows) -> 1..Len(inp.rows)] :
         /\ \A k \in 1..Len(ret.df.rows) : ret.df.rows[k] = inp.rows[f[k]]
         /\ \A k \in 1..(Len(ret.df.rows) - 1) : f[k] < f[k + 1]
         /\ {f[k] : k \in 1..Len(ret.df.rows)}
              = {i \in 1..Len(inp.rows) : MarkedValid(inp, cfg, i)}

C2_Witness ==
  /\ Removed
  /\ Len(inp.rows) = 3
  /\ Len(ret.df.rows) = 2
  /\ ret.df.rows = <<inp.rows[1], inp.rows[3]>>
  /\ inp.rows[1] # inp.rows[3]

\* C3: a row that passes the timestamp, segment, target and id checks is
\* dropped exactly when an earlier row with the same coerced id was kept; a
\* row that fails the checks does not make a later row with its id a
\* duplicate.
C3_DuplicateIffEarlierAccepted ==
  Removed =>
    \A i \in 1..Len(inp.rows) :
      PassesChecks(inp.rows[i], cfg) =>
        ( inp.rows[i].label \notin Labels(ret.df)
          <=> \E j \in 1..(i - 1) :
                /\ PassesChecks(inp.rows[j], cfg)
                /\ inp.rows[j].label \in Labels(ret.df)
                /\ CoercedInt(inp.rows[j].cells[cfg.id])
                     = CoercedInt(inp.rows[i].cells[cfg.id]) )

C3_Witness ==
  /\ Removed
  /\ Len(inp.rows) = 3
  /\ ~PassesChecks(inp.rows[1], cfg)
  /\ cfg.id \in DOMAIN inp.rows[1].cells
  /\ CoercedInt(inp.rows[1].cells[cfg.id]) = 5
  /\ PassesChecks(inp.rows[2], cfg)
  /\ PassesChecks(inp.rows[3], cfg)
  /\ CoercedInt(inp.rows[2].cells[cfg.id]) = 5
  /\ CoercedInt(inp.rows[3].cells[cfg.id]) = 5
  /\ Labels(ret.df) = {inp.rows[2].label}

\* C4: remove_invalid_rows is idempotent: applied to the table it returned,
\* with the same column names, it returns that table again.
C4_Idempotent ==
  Removed /\ ret.kind = "table" =>
    remove_invalid_rows(ret.df, cfg) = Returned(ret.df)

C4_Witness ==
  /\ Removed
  /\ ret.kind = "table"
  /\ Len(ret.df.rows) >= 2
  /\ Len(ret.df.rows) < Len(inp.rows)

\* C5: when one of the four column names is not a column of the table,
\* remove_invalid_rows fails with an error and returns no table.
C5_MissingColumnRaises ==
  Removed /\ ~(Requested(cfg) \subseteq Range(inp.cols)) => ret.kind = "raise"

\* C6: select_relevant_columns on a table that lacks one of the requested
\* segment, time or target columns fails with an error and returns no table.
C6_SelectMissingColumnRaises ==
  /\ last = "select_relevant_columns"
  /\ ~({cfg.segment, cfg.time, cfg.target} \subseteq Range(inp.cols))
  => ret.kind = "raise"

\* C7 as stated: is_positive_integer returns True exactly for the strings
\* that, once trimmed, are a sign-and-digits literal of a value above zero,
\* and returns False (it never raises) for every other string.
C7_TrueIffPlainPositiveLiteral ==
  b # "idle" =>
    /\ b \in {"True", "False"}
    /\ b = "True" <=> ( /\ PlainIntLiteral(Trimmed(s))
                        /\ LiteralValue(Trimmed(s)) > 0 )

\* C7 as amended: is_positive_integer returns True exactly for the strings
\* that, once trimmed, are a literal of int(): an optional sign and decimal
\* digits, single underscores allowed between digits, of a value above zero;
\* it returns False (it never raises) for every other string.
C7_TrueIffIntLiteralAboveZero ==
  b # "idle" =>
    /\ b \in {"True", "False"}
    /\ b = "True" <=> ( /\ UnderscoredIntLiteral(Trimmed(s))
                        /\ LiteralValue(Trimmed(s)) > 0 )

C7_Witness ==
  /\ b = "True"
  /\ s = <<" ", "7", " ">>

\* C8: parse_timestamps, on any table that has the time column and whatever
\* the table's row labels, returns the table of exactly the rows whose time
\* parses.
C8_ParseKeepsExactlyParseableRows ==
  last = "parse_timestamps" /\ cfg.time \in Range(inp.cols) =>
    /\ ret.kind = "table"
    /\ Labels(ret.df)
         = {inp.rows[i].label : i \in {k \in 1..Len(inp.rows) :
                                          ParseableTime(inp.rows[k].cells[cfg.time])}}

\* C9: sort_time_series returns a table that is a permutation of the input
\* rows, ordered by segment and then by time, rows of equal keys in their
\* input order.
C9_SortedStablePermutation ==
  /\ last = "sort_time_series"
  /\ {cfg.segment, cfg.time} \subseteq Range(inp.cols)
  /\ \A i \in 1..Len(inp.rows) :
       /\ PositiveIntCell(inp.rows[i].cells[cfg.segment])
       /\ inp.rows[i].cells[cfg.time].k = "Timestamp"
  => /\ ret.kind = "table"
     /\ Len(ret.df.rows) = Len(inp.rows)
     /\ \E p \in [1..Len(inp.rows) -> 1..Len(inp.rows)] :
          /\ \A i, j \in 1..Len(inp.rows) : i # j => p[i] # p[j]
          /\ \A k \in 1..Len(inp.rows) : ret.df.rows[k] = inp.rows[p[k]]
          /\ \A k \in 1..(Len(inp.rows) - 1) :
               LET x == inp.rows[p[k]]
                   y == inp.rows[p[k + 1]]
                   sx == CoercedInt(x.cells[cfg.segment])
                   sy == CoercedInt(y.cells[cfg.segment])
                   tx == x.cells[cfg.time].n
                   ty == y.cells[cfg.time].n
               IN \/ sx < sy
                  \/ sx = sy /\ tx < ty
                  \/ sx = sy /\ tx = ty /\ p[k] < p[k + 1]

\* The stages of the pipeline, in the order the claim gives them.
ClaimedStages ==
  <<"load", "select_columns", "parse_timestamps", "validate",
    "sort_by_segment_then_time", "save">>

\* C10: run_cleaning_pipeline runs load, select_columns, parse_timestamps,
\* validate, sort_by_segment_then_time and save in that order; it either
\* completes all six and has written the output, or it raises the failure
\* of the stage it stopped at and has written nothing.
C10_StagesInOrderOrFirstFailure ==
  last = "run_cleaning_pipeline" =>
    /\ Len(stages) >= 1
    /\ stages = SubSeq(ClaimedStages, 1, Len(stages))
    /\ \/ ret.kind = "None" /\ stages = ClaimedStages /\ outfile.exists
       \/ ret.kind = "raise" /\ ~outfile.exists

\* The raw file exists, has the default Junction, DateTime, Vehicles and ID
\* columns, and at least one of its rows satisfies the four validity rules.
GoodInputFile ==
  /\ csv.exists
  /\ Requested(DefaultCols) \subseteq Range(csv.header)
  /\ \E i \in 1..Len(csv.rows) : PassesChecks(read_csv(csv).rows[i], DefaultCols)

\* The rows of a table are in segment-then-time order.
SortedBySegmentThenTime(d, c) ==
  \A k \in 1..(Len(d.rows) - 1) :
    LET x == d.rows[k]
        y == d.rows[k + 1]
        sx == CoercedInt(x.cells[c.segment])
        sy == CoercedInt(y.cells[c.segment])
    IN \/ sx < sy
       \/ sx = sy /\ x.cells[c.time].n <= y.cells[c.time].n

\* C11: for an input file that exists, has the default columns and at least
\* one row satisfying the four validity rules, run_cleaning_pipeline
\* completes without failure and has written a non-empty output file that
\* holds at least the segment, time and target columns, its rows sorted by
\* segment and then by time.
C11_GoodInputWritesSortedOutput ==
  last = "run_cleaning_pipeline" /\ GoodInputFile =>
    /\ ret.kind = "None"
    /\ outfile.exists
    /\ outfile.df.rows # <<>>
    /\ {DefaultCols.segment, DefaultCols.time, DefaultCols.target}
         \subseteq Range(outfile.df.cols)
    /\ SortedBySegmentThenTime(outfile.df, DefaultCols)

====
